---------------------------- MODULE Spec2Model ----------------------------
(***************************************************************************)
(* Model of ESP32-Architecture-Lab/dual-core-test/main/dual_core_test.c:   *)
(* app_main (the coordinator), core0_task (Worker A), core1_task           *)
(* (Worker B) and monitor_task (the Monitor), communicating through the    *)
(* FreeRTOS queue core_queue and serialising output with print_mutex.      *)
(*                                                                         *)
(* Time is a global clock `now` in milliseconds.  A task that calls        *)
(* vTaskDelay / vTaskDelayUntil, or blocks in xQueueSend / xQueueReceive    *)
(* with a timeout, records its deadline in `wake`.  The clock advances to   *)
(* the earliest deadline when no task can run (Tick).  Code runs in no      *)
(* time, except that the computation loop of a worker may take one         *)
(* millisecond (Slip) in its first SlipIters iterations, at most MaxSlip   *)
(* times in a run: the synthetic work is short next to the delays, but it  *)
(* is not free, and it shifts the workers against each other.  Task        *)
(* priorities and core pinning are not modelled: every interleaving of     *)
(* runnable tasks is allowed.                                              *)
(***************************************************************************)
EXTENDS Integers, Sequences, FiniteSets, TLC

VARIABLES
    now,               \* the clock, ms (esp_timer_get_time() is now * 1000)
    slips,             \* number of Slip steps taken so far
    pc,                \* position of each task in its code
    wake,              \* deadline of each task's current delay / timeout
    iter,              \* loop variable i of core0_task, core1_task, monitor_task
    task_start,        \* local task_start of core0_task / core1_task
    iteration_start,   \* local iteration_start of core0_task / core1_task
    message,           \* local message of core0_task
    received_message,  \* local received_message of core1_task
    latency,           \* local latency of core1_task (last computed)
    last_wake_time,    \* local last_wake_time of monitor_task
    handles,           \* core_queue / print_mutex handles: "NULL" or "ok"
    results,           \* core0_result, core1_result, monitor_result
    core_queue,        \* the messages held by the queue, head first
    print_mutex,       \* holder of the mutex, or "free"
    writers,           \* tasks inside vprintf / printf on stdout
    lines,             \* "Sent message" / "Received" lines written so far
    core0_counter, core1_counter, core0_total_time, core1_total_time,
    mon,               \* values the Monitor evaluated for its current report
    fin,               \* values app_main evaluated for the final report
    trap,              \* TRUE once a division by zero has been executed
    sent,              \* message ids for which xQueueSend returned pdTRUE
    received,          \* message ids for which xQueueReceive returned pdTRUE
    sendAttempts,      \* calls of xQueueSend that have returned
    sendDrops,         \* calls of xQueueSend that returned errQUEUE_FULL
    recvTimeouts,      \* calls of xQueueReceive that returned pdFALSE
    reports            \* monitor cycles whose five lines have been written

vars == << now, slips, pc, wake, iter, task_start, iteration_start, message,
           received_message, latency, last_wake_time, handles, results,
           core_queue, print_mutex, writers, lines, core0_counter, core1_counter,
           core0_total_time, core1_total_time, mon, fin, trap, sent, received,
           sendAttempts, sendDrops, recvTimeouts, reports >>

-----------------------------------------------------------------------------
(* Program constants *)

QueueLength_Nine == 10 - 1     \* mutant: xQueueCreate(9, ...)
QueueLength == 10        \* xQueueCreate(10, ...)
Core0Iterations == 100   \* for(int i = 0; i < 100; i++)
Core1Iterations_Short == 150 - 50   \* mutant: i < 100 in core1_task
Core1Iterations == 150   \* for(int i = 0; i < 150; i++)
MonitorCycles_Eleven == 10 + 1 \* mutant: i <= 10
MonitorCycles == 10      \* for(int i = 0; i < 10; i++)
SendEvery == 10          \* if(i % 10 == 0)
SendTimeout == 100       \* pdMS_TO_TICKS(100)
ReceiveTimeout == 10     \* pdMS_TO_TICKS(10)
Core0Delay == 50         \* vTaskDelay(pdMS_TO_TICKS(50))
Core1Delay == 30         \* vTaskDelay(pdMS_TO_TICKS(30))
MonitorPeriod == 1000    \* vTaskDelayUntil(&last_wake_time, pdMS_TO_TICKS(1000))
MainDelay_Short == 12000 \div 10   \* mutant: pdMS_TO_TICKS(1200)
MainDelay == 12000       \* vTaskDelay(pdMS_TO_TICKS(12000))

(* Model bounds *)
MaxChanSends == 12       \* xQueueSend calls of the channel exerciser (SpecChan)
MaxChanReceives == 4     \* xQueueReceive calls of the channel exerciser
MaxSlip == 2             \* computation loops of a run that take 1 ms
SlipIters == 2           \* iterations of a worker whose loop may take 1 ms

Tasks == {"A", "B", "M", "main"}
Workers == {"A", "B", "M"}
NoDeadline == 0 - 1      \* wake[t] when t has no deadline pending
NoMsg == [sender_core |-> 0, message_id |-> 0, timestamp |-> 0, data |-> 0]

\* esp_timer_get_time(): microseconds since boot.  Every time and counter
\* value of a run stays far below 2^31 (the run ends near 12 s = 1.2e7 us),
\* so the uint32_t / uint64_t additions of the program never wrap.
Clock == now * 1000

\* mutant: the operands are exchanged
Sub64_Reversed(a, b) == b - a

\* a - b on uint64_t.  A negative result stands for the wrapped value
\* 2^64 + (a - b), which the model's integers cannot hold.
Sub64(a, b) == a - b

\* variable groups
clockVars == << now, slips >>
mainVars == << handles, results, fin >>
chanVars == << core_queue, sent, received, sendAttempts, sendDrops, recvTimeouts >>
sinkVars == << print_mutex, writers, lines >>
counterVars == << core0_counter, core1_counter, core0_total_time, core1_total_time >>
monVars == << last_wake_time, mon, reports >>
localVars == << task_start, iteration_start, message, received_message, latency >>

-----------------------------------------------------------------------------
(* FreeRTOS queue operations on the contents q of core_queue *)

\* mutant: the capacity test is off by one
xQueueSend_OffByOne(q, item) ==
    IF Len(q) <= QueueLength
    THEN [ret |-> TRUE, q |-> Append(q, item)]
    ELSE [ret |-> FALSE, q |-> q]

\* xQueueSend(core_queue, &item, timeout): the item is copied to the tail when
\* there is room; with the queue full and the timeout expired the call
\* returns errQUEUE_FULL and the queue is untouched.
xQueueSend(q, item) ==
    IF Len(q) < QueueLength
    THEN [ret |-> TRUE, q |-> Append(q, item)]
    ELSE [ret |-> FALSE, q |-> q]

\* mutant: the head is copied out but left in the queue (xQueuePeek)
xQueueReceive_Peek(q, buf) ==
    IF Len(q) > 0
    THEN [ret |-> TRUE, q |-> q, buf |-> Head(q)]
    ELSE [ret |-> FALSE, q |-> q, buf |-> buf]

\* mutant: the empty queue is not detected, the stale buffer is reported
xQueueReceive_NoEmptyCheck(q, buf) ==
    IF Len(q) > 0
    THEN [ret |-> TRUE, q |-> Tail(q), buf |-> Head(q)]
    ELSE [ret |-> TRUE, q |-> q, buf |-> buf]

\* xQueueReceive(core_queue, &buf, timeout): the head is copied out and removed
\* when there is one; with the queue empty and the timeout expired the call
\* returns pdFALSE, buf and the queue are untouched.
xQueueReceive(q, buf) ==
    IF Len(q) > 0
    THEN [ret |-> TRUE, q |-> Tail(q), buf |-> Head(q)]
    ELSE [ret |-> FALSE, q |-> q, buf |-> buf]

\* mutant: the count is one too high
uxQueueMessagesWaiting_PlusOne(q) == Len(q) + 1

\* uxQueueMessagesWaiting(core_queue)
uxQueueMessagesWaiting(q) == Len(q)

-----------------------------------------------------------------------------
(* Output: safe_printf call sites of the tasks, printf call sites of app_main *)

SafeSites == {"a_p_started", "a_p_sent", "a_p_done",
              "b_p_started", "b_p_recv", "b_p_done",
              "m_p_hdr", "m_p_c0", "m_p_c1", "m_p_q", "m_p_heap"}

RawSites == {"banner1", "banner2", "p_fail_sync", "p_creating", "p_fail_tasks",
             "p_created", "fin_hdr", "fin_c0", "fin_c1", "fin_avg0",
             "fin_avg1", "fin_done"}

\* the statement that follows each call site
After(site) ==
    CASE site = "a_p_started" -> "a_iter"
      [] site = "a_p_sent"    -> "a_count"
      [] site = "a_p_done"    -> "done"
      [] site = "b_p_started" -> "b_iter"
      [] site = "b_p_recv"    -> "b_count"
      [] site = "b_p_done"    -> "done"
      [] site = "m_p_hdr"     -> "m_cond0"
      [] site = "m_p_c0"      -> "m_cond1"
      [] site = "m_p_c1"      -> "m_queue"
      [] site = "m_p_q"       -> "m_p_heap"
      [] site = "m_p_heap"    -> "m_next"
      [] site = "banner1"     -> "banner2"
      [] site = "banner2"     -> "create_sync"
      [] site = "p_fail_sync" -> "returned"
      [] site = "p_creating"  -> "create0"
      [] site = "p_fail_tasks" -> "returned"
      [] site = "p_created"   -> "delay"
      [] site = "fin_hdr"     -> "fin_r0"
      [] site = "fin_c0"      -> "fin_r1"
      [] site = "fin_c1"      -> "fin_cond0"
      [] site = "fin_avg0"    -> "fin_cond1"
      [] site = "fin_avg1"    -> "fin_done"
      [] site = "fin_done"    -> "returned"

\* the output after the vprintf of the call at `site`.  Of the lines of
\* core0_task and core1_task the model keeps those of the queue operations:
\* "Core 0: Sent message %d" with its argument i, and "Core 1: Received '%s'
\* ..." with the message its argument received_message.data names.
Written(out, site) ==
    CASE site = "a_p_sent" -> [out EXCEPT !.sent = Append(out.sent, iter["A"])]
      [] site = "b_p_recv" -> [out EXCEPT !.recv = Append(out.recv, received_message.data)]
      [] OTHER -> out

\* mutant: the call returns without the mutex
xSemaphoreTake_NotTaken(holder, t) == holder

\* xSemaphoreTake(print_mutex, portMAX_DELAY) by t returns: t holds the mutex
xSemaphoreTake(holder, t) == t

\* safe_printf: xSemaphoreTake(print_mutex, portMAX_DELAY), then vprintf
SafePrintfTake(t) ==
    /\ pc[t] \in SafeSites
    /\ print_mutex = "free"
    /\ print_mutex' = xSemaphoreTake(print_mutex, t)
    /\ writers' = writers \cup {t}
    /\ UNCHANGED << clockVars, pc, wake, iter, localVars, mainVars, chanVars,
                    lines, counterVars, monVars, trap >>

\* mutant: the mutex is not given back
xSemaphoreGive_Missing(holder) == holder

\* xSemaphoreGive(print_mutex) by its holder
xSemaphoreGive(holder) == "free"

\* safe_printf: vprintf returns, xSemaphoreGive(print_mutex), return
SafePrintfGive(t) ==
    /\ pc[t] \in SafeSites
    /\ print_mutex = t
    /\ print_mutex' = xSemaphoreGive(print_mutex)
    /\ writers' = writers \ {t}
    /\ lines' = Written(lines, pc[t])
    /\ pc' = [pc EXCEPT ![t] = After(pc[t])]
    /\ UNCHANGED << clockVars, wake, iter, localVars, mainVars, chanVars,
                    counterVars, monVars, trap >>

\* app_main: printf(...) is entered; print_mutex is not taken
PrintfEnter(t) ==
    /\ pc[t] \in RawSites
    /\ t \notin writers
    /\ writers' = writers \cup {t}
    /\ UNCHANGED << clockVars, pc, wake, iter, localVars, mainVars, chanVars,
                    print_mutex, lines, counterVars, monVars, trap >>

\* app_main: printf(...) returns
PrintfExit(t) ==
    /\ pc[t] \in RawSites
    /\ t \in writers
    /\ writers' = writers \ {t}
    /\ pc' = [pc EXCEPT ![t] = After(pc[t])]
    /\ UNCHANGED << clockVars, wake, iter, localVars, mainVars, chanVars,
                    print_mutex, lines, counterVars, monVars, trap >>

-----------------------------------------------------------------------------
(* app_main, the coordinator *)

\* mutant: only the queue handle is tested
CreationFailed_QueueOnly(q, m) == q = "NULL"

\* core_queue == NULL || print_mutex == NULL
CreationFailed(q, m) == q = "NULL" \/ m = "NULL"

\* core_queue = xQueueCreate(10, ...); print_mutex = xSemaphoreCreateMutex();
\* if(core_queue == NULL || print_mutex == NULL): either creation may fail
Main_CreateSync ==
    /\ pc["main"] = "create_sync"
    /\ \E q \in {"ok", "NULL"}, m \in {"ok", "NULL"} :
         /\ handles' = [core_queue |-> q, print_mutex |-> m]
         /\ pc' = [pc EXCEPT !["main"] =
                      IF CreationFailed(q, m) THEN "p_fail_sync" ELSE "p_creating"]
    /\ UNCHANGED << clockVars, wake, iter, localVars, results, fin, chanVars,
                    sinkVars, counterVars, monVars, trap >>

CreateSite(t) ==
    CASE t = "A" -> "create0" [] t = "B" -> "create1" [] t = "M" -> "create_mon"

AfterCreate(t) ==
    CASE t = "A" -> "create1" [] t = "B" -> "create_mon" [] t = "M" -> "check_tasks"

EntryPoint(t) ==
    CASE t = "A" -> "a_start" [] t = "B" -> "b_start" [] t = "M" -> "m_start"

\* xTaskCreatePinnedToCore(core0_task / core1_task ...), xTaskCreate(monitor_task
\* ...): on pdPASS the task exists and is ready to run; creation may fail
Main_CreateTask(t) ==
    /\ pc["main"] = CreateSite(t)
    /\ \E r \in {"pdPASS", "errCOULD_NOT_ALLOCATE"} :
         /\ results' = [results EXCEPT ![t] = r]
         /\ pc' = [pc EXCEPT !["main"] = AfterCreate(t),
                             ![t] = IF r = "pdPASS" THEN EntryPoint(t) ELSE "none"]
    /\ UNCHANGED << clockVars, wake, iter, localVars, handles, fin, chanVars,
                    sinkVars, counterVars, monVars, trap >>

\* if(core0_result != pdPASS || core1_result != pdPASS || monitor_result != pdPASS)
Main_CheckTasks ==
    /\ pc["main"] = "check_tasks"
    /\ pc' = [pc EXCEPT !["main"] =
                 IF \E t \in Workers : results[t] # "pdPASS"
                 THEN "p_fail_tasks" ELSE "p_created"]
    /\ UNCHANGED << clockVars, wake, iter, localVars, mainVars, chanVars,
                    sinkVars, counterVars, monVars, trap >>

\* vTaskDelay(pdMS_TO_TICKS(12000)) is called
Main_Delay ==
    /\ pc["main"] = "delay"
    /\ wake' = [wake EXCEPT !["main"] = now + MainDelay]
    /\ pc' = [pc EXCEPT !["main"] = "main_sleep"]
    /\ UNCHANGED << clockVars, iter, localVars, mainVars, chanVars,
                    sinkVars, counterVars, monVars, trap >>

\* vTaskDelay returns
Main_Wake ==
    /\ pc["main"] = "main_sleep"
    /\ now >= wake["main"]
    /\ pc' = [pc EXCEPT !["main"] = "fin_hdr"]
    /\ UNCHANGED << clockVars, wake, iter, localVars, mainVars, chanVars,
                    sinkVars, counterVars, monVars, trap >>

Counter(k) == IF k = 0 THEN core0_counter ELSE core1_counter
TotalTime(k) == IF k = 0 THEN core0_total_time ELSE core1_total_time

\* the argument core0_counter / core1_counter of the "total iterations" lines
Main_ReadCounter(k) ==
    /\ pc["main"] = (IF k = 0 THEN "fin_r0" ELSE "fin_r1")
    /\ fin' = [fin EXCEPT !.c[k] = Counter(k)]
    /\ pc' = [pc EXCEPT !["main"] = IF k = 0 THEN "fin_c0" ELSE "fin_c1"]
    /\ UNCHANGED << clockVars, wake, iter, localVars, handles, results, chanVars,
                    sinkVars, counterVars, monVars, trap >>

\* mutant: the guard admits a counter of 0
CounterPositive_OrZero(c) == c >= 0

\* coreK_counter > 0, the guard of the division
CounterPositive(c) == c > 0

\* coreK_counter > 0 ? ... : 0   -- the read of the condition
Main_Cond(k) ==
    /\ pc["main"] = (IF k = 0 THEN "fin_cond0" ELSE "fin_cond1")
    /\ fin' = [fin EXCEPT !.cond[k] = CounterPositive(Counter(k))]
    /\ pc' = [pc EXCEPT !["main"] = IF k = 0 THEN "fin_div0" ELSE "fin_div1"]
    /\ UNCHANGED << clockVars, wake, iter, localVars, handles, results, chanVars,
                    sinkVars, counterVars, monVars, trap >>

\* mutant: the quotient is rounded up
Average_RoundUp(cond, total, c) ==
    IF cond THEN (IF c = 0 THEN 0 ELSE (total + c - 1) \div c) ELSE 0

\* the value of  c > 0 ? total / c : 0  given the outcome of the condition;
\* c is read again for the division
Average(cond, total, c) ==
    IF cond THEN (IF c = 0 THEN 0 ELSE total \div c) ELSE 0

DividesByZero(cond, c) == cond /\ c = 0

\* coreK_total_time / coreK_counter, or 0
Main_Div(k) ==
    /\ pc["main"] = (IF k = 0 THEN "fin_div0" ELSE "fin_div1")
    /\ fin' = [fin EXCEPT !.avg[k] = Average(fin.cond[k], TotalTime(k), Counter(k))]
    /\ trap' = (trap \/ DividesByZero(fin.cond[k], Counter(k)))
    /\ pc' = [pc EXCEPT !["main"] = IF k = 0 THEN "fin_avg0" ELSE "fin_avg1"]
    /\ UNCHANGED << clockVars, wake, iter, localVars, handles, results, chanVars,
                    sinkVars, counterVars, monVars >>

-----------------------------------------------------------------------------
(* core0_task, Worker A *)

\* uint64_t task_start = esp_timer_get_time();
A_Start ==
    /\ pc["A"] = "a_start"
    /\ task_start' = [task_start EXCEPT !["A"] = Clock]
    /\ pc' = [pc EXCEPT !["A"] = "a_p_started"]
    /\ UNCHANGED << clockVars, wake, iter, iteration_start, message,
                    received_message, latency, mainVars, chanVars, sinkVars,
                    counterVars, monVars, trap >>

\* mutant: the test is off by one
SendsAt_OffByOne(i) == (i + 1) % SendEvery = 0

\* i % 10 == 0
SendsAt(i) == i % SendEvery = 0

\* loop test (after the vTaskDelay of the previous iteration has returned)
\* and iteration_start
A_Iter ==
    /\ pc["A"] = "a_iter"
    /\ now >= wake["A"]
    /\ IF iter["A"] < Core0Iterations
       THEN /\ iteration_start' = [iteration_start EXCEPT !["A"] = Clock]
            /\ pc' = [pc EXCEPT !["A"] = "a_work"]
       ELSE /\ pc' = [pc EXCEPT !["A"] = "a_end"]
            /\ UNCHANGED iteration_start
    /\ wake' = [wake EXCEPT !["A"] = NoDeadline]
    /\ UNCHANGED << clockVars, iter, task_start, message, received_message,
                    latency, mainVars, chanVars, sinkVars, counterVars, monVars,
                    trap >>

\* the checksum loop (its result is local and unused) ends; the test i % 10 == 0
A_Work ==
    /\ pc["A"] = "a_work"
    /\ now >= wake["A"]
    /\ pc' = [pc EXCEPT !["A"] = IF SendsAt(iter["A"]) THEN "a_build" ELSE "a_count"]
    /\ wake' = [wake EXCEPT !["A"] = NoDeadline]
    /\ UNCHANGED << clockVars, iter, localVars, mainVars, chanVars,
                    sinkVars, counterVars, monVars, trap >>

\* the message core0_task builds at iteration i
BuildMessage(i) ==
    [sender_core |-> 0, message_id |-> i, timestamp |-> Clock, data |-> i]

\* message.sender_core = 0; message.message_id = i; message.timestamp = ...; snprintf
A_Build ==
    /\ pc["A"] = "a_build"
    /\ message' = BuildMessage(iter["A"])
    /\ pc' = [pc EXCEPT !["A"] = "a_send"]
    /\ UNCHANGED << clockVars, wake, iter, task_start, iteration_start,
                    received_message, latency, mainVars, chanVars, sinkVars,
                    counterVars, monVars, trap >>

\* mutant: the report line comes after the if-block, written on a timeout too
AfterTimeout_Report(t) == IF t = "A" THEN "a_p_sent" ELSE "b_p_recv"

\* mutant: the counter update is inside the if-block, skipped on a timeout
AfterTimeout_SkipCount(t) == IF t = "A" THEN "a_time" ELSE "b_time"

\* the statement after the if-block of the queue call (the call has failed,
\* the block is skipped): core0_counter++ / core1_counter++
AfterTimeout(t) == IF t = "A" THEN "a_count" ELSE "b_count"

\* xQueueSend(core_queue, &message, pdMS_TO_TICKS(100)) == pdTRUE ?
\* With room the message is enqueued at once.  With the queue full the caller
\* blocks until there is room or the timeout (set at the first attempt) expires.
A_Send ==
    /\ pc["A"] = "a_send"
    /\ LET r == xQueueSend(core_queue, message) IN
       IF r.ret
       THEN /\ core_queue' = r.q
            /\ sent' = Append(sent, message.message_id)
            /\ sendAttempts' = sendAttempts + 1
            /\ pc' = [pc EXCEPT !["A"] = "a_p_sent"]
            /\ wake' = [wake EXCEPT !["A"] = NoDeadline]
            /\ UNCHANGED sendDrops
       ELSE IF wake["A"] = NoDeadline
       THEN /\ wake' = [wake EXCEPT !["A"] = now + SendTimeout]
            /\ UNCHANGED << core_queue, sent, sendAttempts, sendDrops, pc >>
       ELSE /\ now >= wake["A"]
            /\ core_queue' = r.q
            /\ sendAttempts' = sendAttempts + 1
            /\ sendDrops' = sendDrops + 1
            /\ pc' = [pc EXCEPT !["A"] = AfterTimeout("A")]
            /\ wake' = [wake EXCEPT !["A"] = NoDeadline]
            /\ UNCHANGED sent
    /\ UNCHANGED << clockVars, iter, localVars, mainVars, received, recvTimeouts,
                    sinkVars, counterVars, monVars, trap >>

\* core0_counter++;
A_Count ==
    /\ pc["A"] = "a_count"
    /\ core0_counter' = core0_counter + 1
    /\ pc' = [pc EXCEPT !["A"] = "a_time"]
    /\ UNCHANGED << clockVars, wake, iter, localVars, mainVars, chanVars,
                    sinkVars, core1_counter, core0_total_time, core1_total_time,
                    monVars, trap >>

\* iteration_time = esp_timer_get_time() - iteration_start;
\* core0_total_time += iteration_time; vTaskDelay(pdMS_TO_TICKS(50)); i++
A_Time ==
    /\ pc["A"] = "a_time"
    /\ core0_total_time' = core0_total_time + Sub64(Clock, iteration_start["A"])
    /\ wake' = [wake EXCEPT !["A"] = now + Core0Delay]
    /\ iter' = [iter EXCEPT !["A"] = iter["A"] + 1]
    /\ pc' = [pc EXCEPT !["A"] = "a_iter"]
    /\ UNCHANGED << clockVars, localVars, mainVars, chanVars, sinkVars,
                    core0_counter, core1_counter, core1_total_time, monVars, trap >>

\* uint64_t task_end = esp_timer_get_time();  (then the "Completed" line,
\* then vTaskDelete(NULL))
A_End ==
    /\ pc["A"] = "a_end"
    /\ pc' = [pc EXCEPT !["A"] = "a_p_done"]
    /\ UNCHANGED << clockVars, wake, iter, localVars, mainVars, chanVars,
                    sinkVars, counterVars, monVars, trap >>

-----------------------------------------------------------------------------
(* core1_task, Worker B *)

\* uint64_t task_start = esp_timer_get_time();
B_Start ==
    /\ pc["B"] = "b_start"
    /\ task_start' = [task_start EXCEPT !["B"] = Clock]
    /\ pc' = [pc EXCEPT !["B"] = "b_p_started"]
    /\ UNCHANGED << clockVars, wake, iter, iteration_start, message,
                    received_message, latency, mainVars, chanVars, sinkVars,
                    counterVars, monVars, trap >>

\* loop test (after the vTaskDelay of the previous iteration has returned)
\* and iteration_start
B_Iter ==
    /\ pc["B"] = "b_iter"
    /\ now >= wake["B"]
    /\ IF iter["B"] < Core1Iterations
       THEN /\ iteration_start' = [iteration_start EXCEPT !["B"] = Clock]
            /\ pc' = [pc EXCEPT !["B"] = "b_work"]
       ELSE /\ pc' = [pc EXCEPT !["B"] = "b_end"]
            /\ UNCHANGED iteration_start
    /\ wake' = [wake EXCEPT !["B"] = NoDeadline]
    /\ UNCHANGED << clockVars, iter, task_start, message, received_message,
                    latency, mainVars, chanVars, sinkVars, counterVars, monVars,
                    trap >>

\* the square-root loop (its result is local and unused) ends
B_Work ==
    /\ pc["B"] = "b_work"
    /\ now >= wake["B"]
    /\ pc' = [pc EXCEPT !["B"] = "b_recv"]
    /\ wake' = [wake EXCEPT !["B"] = NoDeadline]
    /\ UNCHANGED << clockVars, iter, localVars, mainVars, chanVars,
                    sinkVars, counterVars, monVars, trap >>

\* xQueueReceive(core_queue, &received_message, pdMS_TO_TICKS(10)) == pdTRUE ?
\* With a message waiting it is dequeued at once.  With the queue empty the
\* caller blocks until a message arrives or the timeout (set at the first
\* attempt) expires.
B_Recv ==
    /\ pc["B"] = "b_recv"
    /\ LET r == xQueueReceive(core_queue, received_message) IN
       IF r.ret
       THEN /\ core_queue' = r.q
            /\ received_message' = r.buf
            /\ received' = Append(received, r.buf.message_id)
            /\ pc' = [pc EXCEPT !["B"] = "b_latency"]
            /\ wake' = [wake EXCEPT !["B"] = NoDeadline]
            /\ UNCHANGED recvTimeouts
       ELSE IF wake["B"] = NoDeadline
       THEN /\ wake' = [wake EXCEPT !["B"] = now + ReceiveTimeout]
            /\ UNCHANGED << core_queue, received_message, received,
                            recvTimeouts, pc >>
       ELSE /\ now >= wake["B"]
            /\ core_queue' = r.q
            /\ received_message' = r.buf
            /\ recvTimeouts' = recvTimeouts + 1
            /\ pc' = [pc EXCEPT !["B"] = AfterTimeout("B")]
            /\ wake' = [wake EXCEPT !["B"] = NoDeadline]
            /\ UNCHANGED received
    /\ UNCHANGED << clockVars, iter, task_start, iteration_start, message,
                    latency, mainVars, sent, sendAttempts, sendDrops, sinkVars,
                    counterVars, monVars, trap >>

\* uint64_t latency = esp_timer_get_time() - received_message.timestamp;
B_Latency ==
    /\ pc["B"] = "b_latency"
    /\ latency' = Sub64(Clock, received_message.timestamp)
    /\ pc' = [pc EXCEPT !["B"] = "b_p_recv"]
    /\ UNCHANGED << clockVars, wake, iter, task_start, iteration_start, message,
                    received_message, mainVars, chanVars, sinkVars, counterVars,
                    monVars, trap >>

\* mutant: core1_task (a copy of core0_task) still increments core0_counter
B_Count_WrongCounter ==
    /\ pc["B"] = "b_count"
    /\ core0_counter' = core0_counter + 1
    /\ pc' = [pc EXCEPT !["B"] = "b_time"]
    /\ UNCHANGED << clockVars, wake, iter, localVars, mainVars, chanVars,
                    sinkVars, core1_counter, core0_total_time, core1_total_time,
                    monVars, trap >>

\* core1_counter++;
B_Count ==
    /\ pc["B"] = "b_count"
    /\ core1_counter' = core1_counter + 1
    /\ pc' = [pc EXCEPT !["B"] = "b_time"]
    /\ UNCHANGED << clockVars, wake, iter, localVars, mainVars, chanVars,
                    sinkVars, core0_counter, core0_total_time, core1_total_time,
                    monVars, trap >>

\* iteration_time = esp_timer_get_time() - iteration_start;
\* core1_total_time += iteration_time; vTaskDelay(pdMS_TO_TICKS(30)); i++
B_Time ==
    /\ pc["B"] = "b_time"
    /\ core1_total_time' = core1_total_time + Sub64(Clock, iteration_start["B"])
    /\ wake' = [wake EXCEPT !["B"] = now + Core1Delay]
    /\ iter' = [iter EXCEPT !["B"] = iter["B"] + 1]
    /\ pc' = [pc EXCEPT !["B"] = "b_iter"]
    /\ UNCHANGED << clockVars, localVars, mainVars, chanVars, sinkVars,
                    core0_counter, core1_counter, core0_total_time, monVars, trap >>

\* uint64_t task_end = esp_timer_get_time();  (then the "Completed" line,
\* then vTaskDelete(NULL))
B_End ==
    /\ pc["B"] = "b_end"
    /\ pc' = [pc EXCEPT !["B"] = "b_p_done"]
    /\ UNCHANGED << clockVars, wake, iter, localVars, mainVars, chanVars,
                    sinkVars, counterVars, monVars, trap >>

-----------------------------------------------------------------------------
(* monitor_task, the Monitor *)

\* TickType_t last_wake_time = xTaskGetTickCount();
M_Start ==
    /\ pc["M"] = "m_start"
    /\ last_wake_time' = now
    /\ pc' = [pc EXCEPT !["M"] = "m_loop"]
    /\ UNCHANGED << clockVars, wake, iter, localVars, mainVars, chanVars,
                    sinkVars, counterVars, mon, reports, trap >>

\* for(...; i < 10; ...): vTaskDelayUntil(&last_wake_time, pdMS_TO_TICKS(1000))
\* is called, or the loop is left and vTaskDelete(NULL) ends the task
M_Loop ==
    /\ pc["M"] = "m_loop"
    /\ IF iter["M"] < MonitorCycles
       THEN /\ wake' = [wake EXCEPT !["M"] = last_wake_time + MonitorPeriod]
            /\ pc' = [pc EXCEPT !["M"] = "m_wait"]
       ELSE /\ pc' = [pc EXCEPT !["M"] = "done"]
            /\ UNCHANGED wake
    /\ UNCHANGED << clockVars, iter, localVars, mainVars, chanVars, sinkVars,
                    counterVars, monVars, trap >>

\* vTaskDelayUntil returns: last_wake_time has been advanced by the period
M_Wake ==
    /\ pc["M"] = "m_wait"
    /\ now >= wake["M"]
    /\ last_wake_time' = wake["M"]
    /\ pc' = [pc EXCEPT !["M"] = "m_p_hdr"]
    /\ UNCHANGED << clockVars, wake, iter, localVars, mainVars, chanVars,
                    sinkVars, counterVars, mon, reports, trap >>

\* the arguments of a "Core K iterations" line: coreK_counter, and the read of
\* the condition of  coreK_counter > 0 ? ... : 0
M_Cond(k) ==
    /\ pc["M"] = (IF k = 0 THEN "m_cond0" ELSE "m_cond1")
    /\ mon' = [mon EXCEPT !.c[k] = Counter(k), !.cond[k] = CounterPositive(Counter(k))]
    /\ pc' = [pc EXCEPT !["M"] = IF k = 0 THEN "m_div0" ELSE "m_div1"]
    /\ UNCHANGED << clockVars, wake, iter, localVars, mainVars, chanVars,
                    sinkVars, counterVars, last_wake_time, reports, trap >>

\* coreK_total_time / coreK_counter, or 0
M_Div(k) ==
    /\ pc["M"] = (IF k = 0 THEN "m_div0" ELSE "m_div1")
    /\ mon' = [mon EXCEPT !.avg[k] = Average(mon.cond[k], TotalTime(k), Counter(k))]
    /\ trap' = (trap \/ DividesByZero(mon.cond[k], Counter(k)))
    /\ pc' = [pc EXCEPT !["M"] = IF k = 0 THEN "m_p_c0" ELSE "m_p_c1"]
    /\ UNCHANGED << clockVars, wake, iter, localVars, mainVars, chanVars,
                    sinkVars, counterVars, last_wake_time, reports >>

\* the argument uxQueueMessagesWaiting(core_queue) of the "Queue messages" line
M_Queue ==
    /\ pc["M"] = "m_queue"
    /\ mon' = [mon EXCEPT !.waiting = uxQueueMessagesWaiting(core_queue)]
    /\ pc' = [pc EXCEPT !["M"] = "m_p_q"]
    /\ UNCHANGED << clockVars, wake, iter, localVars, mainVars, chanVars,
                    sinkVars, counterVars, last_wake_time, reports, trap >>

\* end of the loop body: i++
M_Next ==
    /\ pc["M"] = "m_next"
    /\ iter' = [iter EXCEPT !["M"] = iter["M"] + 1]
    /\ reports' = reports + 1
    /\ pc' = [pc EXCEPT !["M"] = "m_loop"]
    /\ UNCHANGED << clockVars, wake, localVars, mainVars, chanVars, sinkVars,
                    counterVars, last_wake_time, mon, trap >>

-----------------------------------------------------------------------------
(* The scheduler and the clock *)

DelayStates == {"a_iter", "a_work", "b_iter", "b_work", "m_wait", "main_sleep"}

Inactive(t) == pc[t] \in {"none", "done", "returned"}

\* t waits for a deadline: a delay, a computation loop that takes time, or a
\* queue operation that cannot proceed
TimedWait(t) ==
    \/ pc[t] \in DelayStates /\ now < wake[t]
    \/ /\ pc[t] = "a_send"
       /\ ~xQueueSend(core_queue, message).ret
       /\ wake[t] # NoDeadline /\ now < wake[t]
    \/ /\ pc[t] = "b_recv"
       /\ ~xQueueReceive(core_queue, received_message).ret
       /\ wake[t] # NoDeadline /\ now < wake[t]

\* t waits in xSemaphoreTake(print_mutex, portMAX_DELAY)
MutexWait(t) == pc[t] \in SafeSites /\ print_mutex \notin {"free", t}

Runnable(t) == ~Inactive(t) /\ ~TimedWait(t) /\ ~MutexWait(t)

MinOf(S) == CHOOSE x \in S : \A y \in S : x <= y

\* no task can run: the clock advances to the earliest deadline
Tick ==
    /\ \A t \in Tasks : ~Runnable(t)
    /\ \E t \in Tasks : TimedWait(t)
    /\ now' = MinOf({wake[t] : t \in {u \in Tasks : TimedWait(u)}})
    /\ UNCHANGED << slips, pc, wake, iter, localVars, mainVars, chanVars,
                    sinkVars, counterVars, monVars, trap >>

\* the computation loop worker t has just entered takes a millisecond
Slip(t) ==
    /\ slips < MaxSlip
    /\ pc[t] \in {"a_work", "b_work"}
    /\ iter[t] < SlipIters
    /\ wake[t] = NoDeadline
    /\ wake' = [wake EXCEPT ![t] = now + 1]
    /\ slips' = slips + 1
    /\ UNCHANGED << now, pc, iter, localVars, mainVars, chanVars,
                    sinkVars, counterVars, monVars, trap >>

-----------------------------------------------------------------------------

Init ==
    /\ now = 0
    /\ slips = 0
    /\ pc = [t \in Tasks |-> IF t = "main" THEN "banner1" ELSE "none"]
    /\ wake = [t \in Tasks |-> NoDeadline]
    /\ iter = [t \in Workers |-> 0]
    /\ task_start = [t \in {"A", "B"} |-> 0]
    /\ iteration_start = [t \in {"A", "B"} |-> 0]
    /\ message = NoMsg
    /\ received_message = NoMsg
    /\ latency = 0
    /\ last_wake_time = 0
    /\ handles = [core_queue |-> "NULL", print_mutex |-> "NULL"]
    /\ results = [t \in Workers |-> "unset"]
    /\ core_queue = << >>
    /\ print_mutex = "free"
    /\ writers = {}
    /\ lines = [sent |-> << >>, recv |-> << >>]
    /\ core0_counter = 0
    /\ core1_counter = 0
    /\ core0_total_time = 0
    /\ core1_total_time = 0
    /\ mon = [c |-> [k \in {0, 1} |-> 0], cond |-> [k \in {0, 1} |-> FALSE],
              avg |-> [k \in {0, 1} |-> 0], waiting |-> 0]
    /\ fin = [c |-> [k \in {0, 1} |-> 0], cond |-> [k \in {0, 1} |-> FALSE],
              avg |-> [k \in {0, 1} |-> 0]]
    /\ trap = FALSE
    /\ sent = << >>
    /\ received = << >>
    /\ sendAttempts = 0
    /\ sendDrops = 0
    /\ recvTimeouts = 0
    /\ reports = 0

Next ==
    \/ \E t \in Workers : SafePrintfTake(t)
    \/ \E t \in Workers : SafePrintfGive(t)
    \/ PrintfEnter("main")
    \/ PrintfExit("main")
    \/ Main_CreateSync
    \/ \E t \in Workers : Main_CreateTask(t)
    \/ Main_CheckTasks
    \/ Main_Delay
    \/ Main_Wake
    \/ \E k \in {0, 1} : Main_ReadCounter(k)
    \/ \E k \in {0, 1} : Main_Cond(k)
    \/ \E k \in {0, 1} : Main_Div(k)
    \/ A_Start \/ A_Iter \/ A_Work \/ A_Build \/ A_Send \/ A_Count \/ A_Time \/ A_End
    \/ B_Start \/ B_Iter \/ B_Work \/ B_Recv \/ B_Latency \/ B_Count \/ B_Time \/ B_End
    \/ M_Start \/ M_Loop \/ M_Wake
    \/ \E k \in {0, 1} : M_Cond(k)
    \/ \E k \in {0, 1} : M_Div(k)
    \/ M_Queue \/ M_Next
    \/ Tick
    \/ \E t \in {"A", "B"} : Slip(t)

Spec == Init /\ [][Next]_vars

\* The scheduler runs a task that is ready and the tick interrupt advances the
\* clock: the program does not stop while a step is possible.
FairSpec == Spec /\ WF_vars(Next)

-----------------------------------------------------------------------------
(* The channel on its own: a sender and a receiver that call xQueueSend and  *)
(* xQueueReceive (the calls of core0_task and core1_task, with their         *)
(* timeouts) whenever they like, MaxChanSends sends and MaxChanReceives      *)
(* receives in all.  Unlike core0_task the sender is not limited to ten      *)
(* messages, so the queue fills.                                             *)

InitChan ==
    /\ now = 0
    /\ slips = 0
    /\ pc = [t \in Tasks |-> IF t \in {"A", "B"} THEN "idle"
                             ELSE IF t = "M" THEN "none" ELSE "returned"]
    /\ wake = [t \in Tasks |-> NoDeadline]
    /\ iter = [t \in Workers |-> 0]
    /\ task_start = [t \in {"A", "B"} |-> 0]
    /\ iteration_start = [t \in {"A", "B"} |-> 0]
    /\ message = NoMsg
    /\ received_message = NoMsg
    /\ latency = 0
    /\ last_wake_time = 0
    /\ handles = [core_queue |-> "ok", print_mutex |-> "ok"]
    /\ results = [t \in Workers |-> "unset"]
    /\ core_queue = << >>
    /\ print_mutex = "free"
    /\ writers = {}
    /\ lines = [sent |-> << >>, recv |-> << >>]
    /\ core0_counter = 0
    /\ core1_counter = 0
    /\ core0_total_time = 0
    /\ core1_total_time = 0
    /\ mon = [c |-> [k \in {0, 1} |-> 0], cond |-> [k \in {0, 1} |-> FALSE],
              avg |-> [k \in {0, 1} |-> 0], waiting |-> 0]
    /\ fin = [c |-> [k \in {0, 1} |-> 0], cond |-> [k \in {0, 1} |-> FALSE],
              avg |-> [k \in {0, 1} |-> 0]]
    /\ trap = FALSE
    /\ sent = << >>
    /\ received = << >>
    /\ sendAttempts = 0
    /\ sendDrops = 0
    /\ recvTimeouts = 0
    /\ reports = 0

\* the sender builds its next message and calls xQueueSend
Chan_CallSend ==
    /\ pc["A"] \in {"idle", "a_p_sent", "a_count"}
    /\ sendAttempts < MaxChanSends
    /\ iter' = [iter EXCEPT !["A"] = sendAttempts]
    /\ message' = BuildMessage(sendAttempts)
    /\ pc' = [pc EXCEPT !["A"] = "a_send"]
    /\ UNCHANGED << clockVars, wake, task_start, iteration_start,
                    received_message, latency, mainVars, chanVars, sinkVars,
                    counterVars, monVars, trap >>

\* the receiver calls xQueueReceive
Chan_CallReceive ==
    /\ pc["B"] \in {"idle", "b_latency", "b_count"}
    /\ iter["B"] < MaxChanReceives
    /\ iter' = [iter EXCEPT !["B"] = iter["B"] + 1]
    /\ pc' = [pc EXCEPT !["B"] = "b_recv"]
    /\ UNCHANGED << clockVars, wake, localVars, mainVars, chanVars,
                    sinkVars, counterVars, monVars, trap >>

\* every call in progress is blocked: the clock advances to the earliest
\* timeout (a caller between two calls lets time pass)
Chan_Tick ==
    /\ \E t \in {"A", "B"} : TimedWait(t)
    /\ \A t \in {"A", "B"} : pc[t] \in {"a_send", "b_recv"} => TimedWait(t)
    /\ now' = MinOf({wake[t] : t \in {u \in Tasks : TimedWait(u)}})
    /\ UNCHANGED << slips, pc, wake, iter, localVars, mainVars, chanVars,
                    sinkVars, counterVars, monVars, trap >>

NextChan ==
    \/ Chan_CallSend
    \/ Chan_CallReceive
    \/ A_Send
    \/ B_Recv
    \/ Chan_Tick

SpecChan == InitChan /\ [][NextChan]_vars

-----------------------------------------------------------------------------
(* Properties *)

\* C1: in every reachable state the number of messages held by core_queue,
\* and the occupancy the Monitor reads with uxQueueMessagesWaiting, is between
\* 0 and 10 inclusive.
C1_OccupancyWithinCapacity ==
    /\ Len(core_queue) >= 0 /\ Len(core_queue) <= 10
    /\ mon.waiting >= 0 /\ mon.waiting <= 10

\* C1 witness: the queue is full (Worker B was never created) and the Monitor
\* has read an occupancy of 10.
C1_Witness == Len(core_queue) = 10 /\ mon.waiting = 10 /\ pc["M"] = "m_p_q"

\* C2: the ids received by Worker B are always a prefix of the ids sent by
\* Worker A: send order, no duplicate, nothing that was not sent.
C2_ReceivedPrefixOfSent ==
    /\ Len(received) <= Len(sent)
    /\ \A k \in 1..Len(received) : received[k] = sent[k]

\* C2 witness: several messages have been received and one more is in flight.
C2_Witness ==
    /\ Len(received) >= 2
    /\ Len(sent) = Len(received) + 1
    /\ Len(core_queue) = 1

\* C3: concurrent writers never interleave: at most one writer (Worker A,
\* Worker B, the Monitor or the coordinator) is inside a write to the output
\* stream at any time.
C3_AtMostOneWriter == Cardinality(writers) <= 1

\* C4: when Worker B has completed its 150 iterations it has received at least
\* as many messages as Worker A sent minus those dropped; Worker A, when it
\* was started, has made all its 10 sends by then.
C4_AllReceivedWhenBDone ==
    pc["B"] \in {"b_end", "b_p_done", "done"} =>
        /\ iter["B"] = 150
        /\ Len(received) >= sendAttempts - sendDrops
        /\ results["A"] = "pdPASS" => sendAttempts = 10

\* C4 witness: Worker B is done and has received all ten messages.
C4_Witness == pc["B"] = "done" /\ Len(received) = 10 /\ sendDrops = 0

\* C5: no send of Worker A is dropped: the queue is not full at any send
\* attempt, and no xQueueSend has returned failure.
C5_NoSendDropped ==
    /\ sendDrops = 0
    /\ pc["A"] = "a_send" => Len(core_queue) < 10

\* C5 witness: the tenth send attempt with nine messages still queued (Worker
\* B was never created), the closest the queue comes to being full at a send.
C5_Witness == pc["A"] = "a_send" /\ Len(core_queue) = 9 /\ iter["A"] = 90

ExpectedIds == [k \in 1..10 |-> 10 * (k - 1)]

\* C6: Worker A attempts a send on exactly the iterations divisible by 10, once
\* each; the ids sent are always the first ones of 0, 10, ..., 90, and when
\* Worker A completes its 100 iterations it has sent exactly these ten.
C6_SendsEveryTenth ==
    /\ pc["A"] \in {"a_build", "a_send", "a_p_sent"} => iter["A"] % 10 = 0
    /\ sendAttempts = IF pc["A"] \in {"a_p_sent", "a_count", "a_time"}
                      THEN (iter["A"] \div 10) + 1
                      ELSE (iter["A"] + 9) \div 10
    /\ Len(sent) <= 10
    /\ \A k \in 1..Len(sent) : sent[k] = ExpectedIds[k]
    /\ pc["A"] = "done" => iter["A"] = 100 /\ sent = ExpectedIds

\* C6 witness: Worker A has completed and has sent 0, 10, ..., 90.
C6_Witness == pc["A"] = "done" /\ sent = ExpectedIds /\ sendAttempts = 10

\* C7: a send returns on the full queue only when its timeout has elapsed;
\* it then returns failure, the message is not enqueued, and the queue holds
\* exactly what it held before.
C7_SendTimeoutLeavesQueue ==
    [][ ( /\ pc["A"] = "a_send"
          /\ Len(core_queue) = 10
          /\ pc'["A"] # "a_send" )
        => ( /\ wake["A"] # NoDeadline /\ now >= wake["A"]
             /\ pc'["A"] = "a_count"
             /\ sendDrops' = sendDrops + 1
             /\ core_queue' = core_queue
             /\ sent' = sent ) ]_vars

\* C7 witness: a send has timed out on the full queue, which is still full.
C7_Witness == sendDrops >= 1 /\ pc["A"] = "a_count" /\ Len(core_queue) = 10

\* C8: a receive returns on the empty queue only when its timeout has
\* elapsed; it then returns "no message", the queue is still empty, nothing
\* is recorded as received, and Worker B goes on with its iteration (the
\* counter update).
C8_ReceiveTimeoutLeavesQueue ==
    [][ ( /\ pc["B"] = "b_recv"
          /\ core_queue = << >>
          /\ pc'["B"] # "b_recv" )
        => ( /\ wake["B"] # NoDeadline /\ now >= wake["B"]
             /\ pc'["B"] = "b_count"
             /\ recvTimeouts' = recvTimeouts + 1
             /\ core_queue' = << >>
             /\ received' = received ) ]_vars

\* C8 witness: Worker B is past a timed-out receive, after an earlier
\* successful one, and about to update its counter.
C8_Witness ==
    /\ pc["B"] = "b_count"
    /\ recvTimeouts >= 1
    /\ Len(received) >= 1
    /\ core_queue = << >>

MonitorReportStates ==
    {"m_p_hdr", "m_cond0", "m_div0", "m_p_c0", "m_cond1", "m_div1", "m_p_c1",
     "m_queue", "m_p_q", "m_p_heap", "m_next"}

\* C9: the Monitor issues exactly 10 reports, the k-th at k seconds, then
\* terminates and never reports again.
C9_MonitorTenReports ==
    /\ [](reports <= 10)
    /\ [](pc["M"] \in MonitorReportStates =>
              reports = iter["M"] /\ now = 1000 * (iter["M"] + 1))
    /\ [](pc["M"] = "done" => reports = 10 /\ "M" \notin writers)
    /\ [][pc["M"] = "done" => pc'["M"] = "done" /\ reports' = reports]_vars

\* C9 witness: the Monitor has terminated after its ten reports.
C9_Witness == pc["M"] = "done" /\ reports = 10 /\ now = 10000

FinalStates ==
    {"fin_hdr", "fin_r0", "fin_c0", "fin_r1", "fin_c1", "fin_cond0", "fin_div0",
     "fin_avg0", "fin_cond1", "fin_div1", "fin_avg1", "fin_done"}

\* C10: when the coordinator produces the final report all workers have
\* finished: Worker A after 100 iterations, Worker B after 150, the Monitor
\* after 10 reports; the counters it reads are 100 and 150.
C10_FinalReportAfterWorkers ==
    /\ pc["main"] \in FinalStates =>
          /\ pc["A"] = "done" /\ core0_counter = 100
          /\ pc["B"] = "done" /\ core1_counter = 150
          /\ pc["M"] = "done" /\ reports = 10
    /\ pc["main"] \in FinalStates \ {"fin_hdr", "fin_r0"} => fin.c[0] = 100
    /\ pc["main"] \in FinalStates \ {"fin_hdr", "fin_r0", "fin_c0", "fin_r1"} =>
          fin.c[1] = 150

\* C10 witness: the last line of the final report, after 100 and 150 were read.
C10_Witness ==
    /\ pc["main"] = "fin_done"
    /\ fin.c[0] = 100 /\ fin.c[1] = 150
    /\ now >= 12000

\* C11: the average reported for a worker, by the Monitor and by the final
\* report, is 0 whenever the iteration count of that worker is 0, and no
\* division by zero is ever executed: when the guard was read as true the
\* counter read again for the division is not 0, although its owner may have
\* incremented it in between.
C11_AverageZeroNoDivisionByZero ==
    /\ trap = FALSE
    /\ \A k \in {0, 1} :
         /\ pc["M"] # (IF k = 0 THEN "m_div0" ELSE "m_div1") /\ mon.c[k] = 0
                => mon.avg[k] = 0
         /\ pc["M"] = (IF k = 0 THEN "m_div0" ELSE "m_div1") /\ mon.cond[k]
                => Counter(k) > 0
         /\ pc["main"] \in {"fin_avg0", "fin_cond1", "fin_div1", "fin_avg1", "fin_done"}
            /\ k = 0 /\ fin.c[k] = 0 => fin.avg[k] = 0
         /\ pc["main"] \in {"fin_avg1", "fin_done"}
            /\ k = 1 /\ fin.c[k] = 0 => fin.avg[k] = 0
         /\ pc["main"] = (IF k = 0 THEN "fin_div0" ELSE "fin_div1") /\ fin.cond[k]
                => Counter(k) > 0

\* C11 witness: Worker A was never created; the Monitor writes a count of 0
\* and an average of 0 for it while Worker B is running and counting.
C11_Witness ==
    /\ pc["M"] = "m_p_c0"
    /\ mon.c[0] = 0 /\ mon.cond[0] = FALSE /\ mon.avg[0] = 0
    /\ core1_counter > 0

\* C12: when the final report is produced Worker A has completed exactly 100
\* iterations and Worker B exactly 150, and the averages of the final report
\* are core0_total_time / 100 and core1_total_time / 150, the quotients of
\* the unsigned integer division (truncated).
C12_FinalAverageExact ==
    /\ core0_total_time >= 0 /\ core1_total_time >= 0
    /\ pc["main"] \in {"fin_avg0", "fin_cond1", "fin_div1", "fin_avg1", "fin_done"} =>
          /\ core0_counter = 100
          /\ fin.avg[0] = core0_total_time \div 100
          /\ fin.avg[0] * 100 <= core0_total_time
          /\ core0_total_time < (fin.avg[0] + 1) * 100
    /\ pc["main"] \in {"fin_avg1", "fin_done"} =>
          /\ core1_counter = 150
          /\ fin.avg[1] = core1_total_time \div 150
          /\ fin.avg[1] * 150 <= core1_total_time
          /\ core1_total_time < (fin.avg[1] + 1) * 150

\* C12 witness: the final report with a non-zero average for Worker A and a
\* cumulative time of Worker B that 150 does not divide (the quotient is
\* truncated).
C12_Witness ==
    /\ pc["main"] = "fin_done"
    /\ core0_total_time > 0 /\ fin.avg[0] = core0_total_time \div 100
    /\ core1_total_time % 150 # 0 /\ fin.avg[1] = core1_total_time \div 150

\* app_main has found a task creation result other than pdPASS (line 177)
WorkerStartFailureDetected ==
    /\ pc["main"] \in {"p_fail_tasks", "returned"}
    /\ \E t \in Workers : results[t] = "errCOULD_NOT_ALLOCATE"

\* C13: once the coordinator has detected that a worker failed to start, no
\* worker that did start takes another step: no iteration, no counter
\* update, no send, no receive, no report line.
C13_NoWorkerRunsAfterStartFailure ==
    [][ WorkerStartFailureDetected =>
          /\ \A t \in Workers : pc'[t] = pc[t]
          /\ UNCHANGED << iter, counterVars, core_queue, sent, received, reports >>
          /\ writers' \cap Workers = writers \cap Workers ]_vars

\* xQueueCreate or xSemaphoreCreateMutex has returned NULL
SyncCreationFailure ==
    /\ pc["main"] \notin {"banner1", "banner2", "create_sync"}
    /\ handles.core_queue = "NULL" \/ handles.print_mutex = "NULL"

\* C14: if the queue or the mutex cannot be created the coordinator writes
\* the failure line and returns; no task is ever created, and no send, receive
\* or counter update occurs.
C14_NoWorkerAfterSyncCreationFailure ==
    /\ [](SyncCreationFailure =>
             /\ pc["main"] \in {"p_fail_sync", "returned"}
             /\ \A t \in Workers : pc[t] = "none" /\ results[t] = "unset"
             /\ sendAttempts = 0 /\ sent = << >> /\ core_queue = << >>
             /\ received = << >> /\ recvTimeouts = 0
             /\ core0_counter = 0 /\ core1_counter = 0
             /\ core0_total_time = 0 /\ core1_total_time = 0)
    /\ [][SyncCreationFailure /\ pc'["main"] # pc["main"] =>
             pc["main"] = "p_fail_sync" /\ "main" \in writers
             /\ pc'["main"] = "returned"]_vars

\* C14 witness: the queue was created, the mutex was not; app_main has written
\* the failure line and returned.
C14_Witness ==
    /\ pc["main"] = "returned"
    /\ handles.core_queue = "ok" /\ handles.print_mutex = "NULL"
    /\ \A t \in Workers : pc[t] = "none"

\* the bound of the loop of each task
LoopBound(t) == CASE t = "A" -> 100 [] t = "B" -> 150 [] t = "M" -> 10

\* C15: under fair scheduling every task that was created runs to the bound of
\* its loop and ends by itself: core0_task after 100 iterations, core1_task
\* after 150, monitor_task after 10 cycles.  None blocks forever on the queue,
\* on print_mutex or in a delay.
C15_WorkersRunToCompletion ==
    <>[](\A t \in Workers :
            results[t] = "pdPASS" => pc[t] = "done" /\ iter[t] = LoopBound(t))

\* C15 witness: all three tasks have ended, each at its bound.
C15_Witness ==
    /\ \A t \in Workers : pc[t] = "done" /\ iter[t] = LoopBound(t)
    /\ print_mutex = "free" /\ pc["main"] = "main_sleep"

\* C16: each worker increments its counter exactly once in every iteration,
\* whatever the outcome of the send or receive of that iteration: the counter
\* is the number of iterations whose counting step has executed (for Worker B
\* the number of receives that have returned, with or without a message, and
\* been counted), and it is 100 for Worker A and 150 for Worker B at
\* completion.
C16_CounterCountsIterations ==
    /\ core0_counter = iter["A"] + (IF pc["A"] = "a_time" THEN 1 ELSE 0)
    /\ core1_counter = iter["B"] + (IF pc["B"] = "b_time" THEN 1 ELSE 0)
    /\ core1_counter = Len(received) + recvTimeouts
                         - (IF pc["B"] \in {"b_latency", "b_p_recv", "b_count"}
                            THEN 1 ELSE 0)
    /\ pc["A"] \in {"a_end", "a_p_done", "done"} => core0_counter = 100
    /\ pc["B"] \in {"b_end", "b_p_done", "done"} => core1_counter = 150

\* C16 witness: Worker B has just counted an iteration whose receive timed
\* out, after iterations whose receive succeeded; Worker A has counted
\* iterations with and without a send.
C16_Witness ==
    /\ pc["B"] = "b_time"
    /\ Len(received) >= 1 /\ recvTimeouts >= 1 /\ core_queue = << >>
    /\ core1_counter = Len(received) + recvTimeouts
    /\ core0_counter >= 12

\* C17: core0_counter and core0_total_time are written only by core0_task,
\* core1_counter and core1_total_time only by core1_task: a step that changes
\* one of them is a step of the owner alone, at its counter or time update.
\* So the steps of Worker A leave Worker B's two variables unchanged and vice
\* versa, and the steps of the Monitor and of the coordinator leave all four
\* unchanged.
C17_CountersWrittenByOwnerOnly ==
    [][ /\ ( core0_counter' # core0_counter \/ core0_total_time' # core0_total_time )
             => /\ pc["A"] \in {"a_count", "a_time"} /\ pc'["A"] # pc["A"]
                /\ \A t \in Tasks \ {"A"} : pc'[t] = pc[t]
                /\ UNCHANGED << core1_counter, core1_total_time >>
        /\ ( core1_counter' # core1_counter \/ core1_total_time' # core1_total_time )
             => /\ pc["B"] \in {"b_count", "b_time"} /\ pc'["B"] # pc["B"]
                /\ \A t \in Tasks \ {"B"} : pc'[t] = pc[t]
                /\ UNCHANGED << core0_counter, core0_total_time >> ]_vars

\* C17 witness: Worker A has incremented core0_counter between two reads of
\* the Monitor, Worker B has counted and accumulated time of its own.
C17_Witness ==
    /\ pc["M"] = "m_div0" /\ core0_counter = mon.c[0] + 1
    /\ core1_counter > 0 /\ core1_total_time > 0

\* C18: every safe_printf takes print_mutex before it writes and gives it
\* before it returns.  So a task inside the vprintf of safe_printf holds the
\* mutex, the mutex is held only by a task that is inside that write, it is
\* free whenever no task is inside a write, and it is free once all workers
\* have terminated.
C18_LockHeldOnlyInsideWrite ==
    /\ [](\A t \in Workers : t \in writers => print_mutex = t)
    /\ [](print_mutex # "free" =>
              /\ print_mutex \in Workers
              /\ print_mutex \in writers
              /\ pc[print_mutex] \in SafeSites)
    /\ [](writers = {} => print_mutex = "free")
    /\ []((\A t \in Workers : pc[t] \in {"none", "done"}) => print_mutex = "free")
    /\ [][\A t \in Workers :
             pc[t] \in SafeSites /\ pc'[t] # pc[t] =>
                 /\ print_mutex = t /\ t \in writers
                 /\ print_mutex' = "free" /\ t \notin writers']_vars

\* C18 witness: Worker A is inside a write and holds the mutex while Worker B
\* and the Monitor wait for it in safe_printf.
C18_Witness ==
    /\ print_mutex = "A" /\ "A" \in writers
    /\ MutexWait("B") /\ MutexWait("M")

\* C19: the report lines match the outcomes of the queue operations one to
\* one.  Worker A has written "Sent message i" for exactly the successful
\* sends, in order, with the iteration index i of each (the last line may
\* still be pending); Worker B has written one "Received" line for each
\* message received, in order; a receive that times out writes nothing, so
\* the iterations of Worker B are its report lines plus its timeouts.
C19_LinesMatchOutcomes ==
    /\ [](IF pc["A"] = "a_p_sent"
           THEN sent = Append(lines.sent, iter["A"])
           ELSE lines.sent = sent)
    /\ [](IF pc["B"] \in {"b_latency", "b_p_recv"}
           THEN received = Append(lines.recv, received_message.message_id)
           ELSE lines.recv = received)
    /\ [](pc["B"] \in {"b_end", "b_p_done", "done"} =>
              Len(lines.recv) + recvTimeouts = 150)
    /\ [][recvTimeouts' # recvTimeouts =>
              lines' = lines /\ pc'["B"] = "b_count"]_vars

\* C19 witness: Worker A has written the lines of its first sends, Worker B
\* has reported every message but the one it has just received, and some of
\* its receives have timed out.
C19_Witness ==
    /\ Len(lines.sent) >= 3 /\ lines.sent = sent
    /\ pc["B"] = "b_p_recv" /\ "B" \in writers
    /\ Len(lines.recv) = Len(received) - 1
    /\ recvTimeouts >= 2

\* C20: for every message Worker B receives, the clock it reads after the
\* dequeue is not before the timestamp Worker A stored in the message before
\* the send, so the uint64_t subtraction of line 96 never wraps: the latency
\* is the elapsed time, not negative.  (The timestamp of every message built
\* or queued is not after the clock.)
C20_LatencyNeverWraps ==
    /\ latency >= 0
    /\ message.timestamp <= Clock
    /\ \A k \in 1..Len(core_queue) : core_queue[k].timestamp <= Clock
    /\ pc["B"] = "b_latency" => Clock >= received_message.timestamp
    /\ pc["B"] = "b_p_recv" =>
          received_message.timestamp + latency <= Clock

\* C20 witness: Worker B reports a message that waited in the queue: the
\* latency is positive.
C20_Witness ==
    /\ pc["B"] = "b_p_recv"
    /\ latency > 0
    /\ latency = Clock - received_message.timestamp
    /\ Len(received) >= 2

=============================================================================
